---- MODULE Spec2Model ----
(***************************************************************************)
(* The terrain streaming pipeline of luminance_procedural_world:           *)
(* Terrain (main thread: update, draw, drop), the scanner thread and the   *)
(* NUM_WORKERS generator threads of TerrainGenThread::spawn, the two mpsc  *)
(* channels between them and the mutex-guarded work queue.                 *)
(***************************************************************************)
EXTENDS Integers, Sequences, FiniteSets, TLC

(***************************************************************************)
(* Bounds of the model.                                                    *)
(***************************************************************************)
\* Side of a cubic sector in blocks (32 in src/src/terrain/mod.rs:43).
SECTOR_SIZE == 2
\* Number of generator threads (8 in src/src/terrain/mod.rs:451).
NUM_WORKERS == 2
\* How many leading entries of GENERATE_ORDER a scan follows on x and on z
\* (all 7 in the source).
ScanLen == 1
\* A scan visits dy in -ScanDepth..0 (-3..0 in the source).
ScanDepth == 1
\* How many scans the scanner thread starts while the Terrain lives.
MaxScans == 3
\* How many times the camera changes position.
MaxMoves == 1
\* The same bounds for SpecMesh, whose scans are wide enough to put the six
\* neighbours of a sector into the map.
MeshWorkers == 1
MeshScanLen == 3
MeshScanDepth == 2
MeshMaxScans == 2
MeshMaxMoves == 1
\* Voxel calls: set calls made on one list, the range of the sector
\* coordinates handed to generate, and how far past SECTOR_SIZE - 1 the
\* components handed to SectorSpaceCoords::new go.
MaxSets == 1
GenRange == 1
CoordOver == 1
\* How many leading entries of GENERATE_ORDER the scans follow on x and on z
\* before collide is called on a map with several meshed sectors.
CollideScanLen == 5
\* SpecLock: scans the scanner starts and camera moves.
LockMaxScans == 2
LockMaxMoves == 1
\* The same for FairSpecLock.
FairLockScans == 1
FairLockMoves == 1

(***************************************************************************)
(* Program constants.                                                      *)
(***************************************************************************)
GENERATE_ORDER == <<0, -1, 1, -2, 2, 3, -3>>
RENDER_DIST_AXIS == 2
\* The literal of the retain closure: a sector stays while dist_sq < 280.
RETAIN_DIST_SQ == 280
SECTOR_LEN == SECTOR_SIZE * SECTOR_SIZE * SECTOR_SIZE

Abs(n) == IF n < 0 THEN -n ELSE n

(***************************************************************************)
(* maths::Translation. A component is a fixed-point number of tenths of a  *)
(* block; f32::round rounds half away from zero.                           *)
(***************************************************************************)
Translation(x, y, z) == [x |-> x, y |-> y, z |-> z]

Round(v) == IF v >= 0 THEN (v + 5) \div 10 ELSE -((5 - v) \div 10)

\* (pos.x.round() / SECTOR_SIZE as f32).floor() as i32, per component.
sector_at(pos) ==
    << Round(pos.x) \div SECTOR_SIZE,
       Round(pos.y) \div SECTOR_SIZE,
       Round(pos.z) \div SECTOR_SIZE >>

(***************************************************************************)
(* voxel: SectorSpaceCoords, BlockList, Sector.                            *)
(***************************************************************************)
Block == {"Air", "Limestone", "Loam", "Grass", "Tree", "Leaves"}

is_air(b) == b = "Air"

Block_needs_rendering(b) == ~is_air(b)

\* The outcome of a call that panics; no u8 triple equals it.
PANIC == << -1, -1, -1 >>

\* A bounds check that lets a component equal to SECTOR_SIZE through.
SectorSpaceCoords_OffByOne(x, y, z) ==
    IF x > SECTOR_SIZE \/ y > SECTOR_SIZE \/ z > SECTOR_SIZE
    THEN PANIC
    ELSE <<x, y, z>>

\* SectorSpaceCoords::new: a triple, or the panic of an out-of-range component.
SectorSpaceCoords(x, y, z) ==
    IF x >= SECTOR_SIZE \/ y >= SECTOR_SIZE \/ z >= SECTOR_SIZE
    THEN PANIC
    ELSE <<x, y, z>>

\* An index without the stride of y.
index_NoStride(pos) == pos[1] + pos[2] + pos[3] * SECTOR_SIZE * SECTOR_SIZE

\* BlockList::index
index(pos) == pos[1] + pos[2] * SECTOR_SIZE + pos[3] * SECTOR_SIZE * SECTOR_SIZE

new_air == [i \in 0..(SECTOR_LEN - 1) |-> "Air"]

\* BlockList::get and BlockList::set
get(blocks, pos) == blocks[index(pos)]

set(blocks, pos, b) == [blocks EXCEPT ![index(pos)] = b]

\* A needs_rendering that holds of every list.
needs_rendering_Always(blocks) == TRUE

\* BlockList::needs_rendering
needs_rendering(blocks) ==
    \E i \in DOMAIN blocks : Block_needs_rendering(blocks[i])

\* BlockListIter::next: the coordinate recovered from the array position.
IterCoord(i) ==
    LET z == i \div (SECTOR_SIZE * SECTOR_SIZE)
        r == i - z * SECTOR_SIZE * SECTOR_SIZE
        y == r \div SECTOR_SIZE
        x == r - y * SECTOR_SIZE
    IN  SectorSpaceCoords(x, y, z)

\* BlockListIter: the items (coordinate, block) in the order next() yields them.
BlockListIter(blocks) ==
    [n \in 1..SECTOR_LEN |-> << IterCoord(n - 1), blocks[n - 1] >>]

\* Option<Model<Vertex>>: None, or Some(model) with the quads of its tessellation.
NoModel == [present |-> FALSE, quads |-> <<>>]

SomeModel(quads) == [present |-> TRUE, quads |-> quads]

\* Sector::new as Terrain::update calls it: the blocks, no model yet.
Sector_new(block_list) == [blocks |-> block_list, model |-> NoModel]

\* Sector::set_model
set_model(sector, model) == [sector EXCEPT !.model = model]

(***************************************************************************)
(* world_gen: WorldGen::generate. In every column the blocks from y = 0 up *)
(* are set to Grass while h = y + sector.1 * SECTOR_SIZE <= 0; the loop    *)
(* leaves the column at the first h > 0.                                   *)
(***************************************************************************)
\* A column whose height is taken from the sector's x.
RECURSIVE FillColumn_ByX(_, _, _, _, _)
FillColumn_ByX(list, sector, x, z, y) ==
    IF y >= SECTOR_SIZE THEN list
    ELSE IF y + sector[1] * SECTOR_SIZE <= 0
         THEN FillColumn_ByX(set(list, SectorSpaceCoords(x, y, z), "Grass"),
                             sector, x, z, y + 1)
         ELSE list

RECURSIVE FillColumn(_, _, _, _, _)
FillColumn(list, sector, x, z, y) ==
    IF y >= SECTOR_SIZE THEN list
    ELSE IF y + sector[2] * SECTOR_SIZE <= 0
         THEN FillColumn(set(list, SectorSpaceCoords(x, y, z), "Grass"),
                         sector, x, z, y + 1)
         ELSE list

RECURSIVE FillFrom(_, _, _)
FillFrom(list, sector, n) ==
    IF n >= SECTOR_SIZE * SECTOR_SIZE THEN list
    ELSE FillFrom(FillColumn(list, sector, n \div SECTOR_SIZE, n % SECTOR_SIZE, 0),
                  sector, n + 1)

generate(sector) == FillFrom(new_air, sector, 0)

(***************************************************************************)
(* mesh_gen: one quad (6 vertices) per visible face of a non-air block.    *)
(***************************************************************************)
Faces == <<"Back", "Front", "Top", "Bottom", "Left", "Right">>

\* SectorSpaceCoords::back .. right: <<>> is None, <<c>> is Some(c).
back(c)   == IF c[3] > 0 THEN << SectorSpaceCoords(c[1], c[2], c[3] - 1) >> ELSE << >>
front(c)  == IF c[3] < SECTOR_SIZE - 1 THEN << SectorSpaceCoords(c[1], c[2], c[3] + 1) >> ELSE << >>
top(c)    == IF c[2] < SECTOR_SIZE - 1 THEN << SectorSpaceCoords(c[1], c[2] + 1, c[3]) >> ELSE << >>
bottom(c) == IF c[2] > 0 THEN << SectorSpaceCoords(c[1], c[2] - 1, c[3]) >> ELSE << >>
left(c)   == IF c[1] > 0 THEN << SectorSpaceCoords(c[1] - 1, c[2], c[3]) >> ELSE << >>
right(c)  == IF c[1] < SECTOR_SIZE - 1 THEN << SectorSpaceCoords(c[1] + 1, c[2], c[3]) >> ELSE << >>

\* AdjacentSectors::new
AdjacentSectors(bk, fr, tp, bt, lf, rt) ==
    [back |-> bk, front |-> fr, top |-> tp, bottom |-> bt, left |-> lf, right |-> rt]

\* The (block list, coordinate) pair should_create_face looks at.
FaceNeighbour(face, coord, blocks, adjacent) ==
    CASE face = "Back" ->
           IF back(coord) = << >>
           THEN << adjacent.back.blocks, SectorSpaceCoords(coord[1], coord[2], SECTOR_SIZE - 1) >>
           ELSE << blocks, back(coord)[1] >>
      [] face = "Front" ->
           IF front(coord) = << >>
           THEN << adjacent.front.blocks, SectorSpaceCoords(coord[1], coord[2], 0) >>
           ELSE << blocks, front(coord)[1] >>
      [] face = "Top" ->
           IF top(coord) = << >>
           THEN << adjacent.top.blocks, SectorSpaceCoords(coord[1], 0, coord[3]) >>
           ELSE << blocks, top(coord)[1] >>
      [] face = "Bottom" ->
           IF bottom(coord) = << >>
           THEN << adjacent.bottom.blocks, SectorSpaceCoords(coord[1], SECTOR_SIZE - 1, coord[3]) >>
           ELSE << blocks, bottom(coord)[1] >>
      [] face = "Left" ->
           IF left(coord) = << >>
           THEN << adjacent.left.blocks, SectorSpaceCoords(SECTOR_SIZE - 1, coord[2], coord[3]) >>
           ELSE << blocks, left(coord)[1] >>
      [] face = "Right" ->
           IF right(coord) = << >>
           THEN << adjacent.right.blocks, SectorSpaceCoords(0, coord[2], coord[3]) >>
           ELSE << blocks, right(coord)[1] >>

\* A mesh generator that culls nothing.
should_create_face_Always(face, coord, blocks, adjacent) == TRUE

should_create_face(face, coord, blocks, adjacent) ==
    LET n == FaceNeighbour(face, coord, blocks, adjacent)
    IN  ~Block_needs_rendering(get(n[1], n[2]))

\* The loop of generate_block_vertices from step n on: step n looks at face
\* (n % 6) of the block at array position n \div 6.
RECURSIVE MeshFrom(_, _, _, _)
MeshFrom(v, blocks, adjacent, n) ==
    IF n >= SECTOR_LEN * 6 THEN v
    ELSE LET i == n \div 6
             face == Faces[(n % 6) + 1]
             c == IterCoord(i)
         IN  MeshFrom(IF ~is_air(blocks[i]) /\ should_create_face(face, c, blocks, adjacent)
                      THEN Append(v, <<c, face>>)
                      ELSE v,
                      blocks, adjacent, n + 1)

generate_block_vertices(blocks, adjacent) == MeshFrom(<< >>, blocks, adjacent, 0)

\* generate_face pushes the two triangles of a quad.
VERTICES_PER_FACE == 6

vertex_count(quads) == VERTICES_PER_FACE * Len(quads)

\* Sector::create_model
create_model(sector, adjacent) ==
    SomeModel(generate_block_vertices(sector.blocks, adjacent))

(***************************************************************************)
(* Frustum culling: sector_visible with the planes of maths::Frustum.      *)
(* Plane coefficients are integers; positions are kept doubled so that the *)
(* half sector SECTOR_SIZE_F_2 stays an integer.                           *)
(***************************************************************************)
Plane(a, b, c, d) == [a |-> a, b |-> b, c |-> c, d |-> d]

sector_visible(frustum, pos) ==
    LET px == 2 * pos[1] * SECTOR_SIZE + SECTOR_SIZE
        py == 2 * pos[2] * SECTOR_SIZE + SECTOR_SIZE
        pz == 2 * pos[3] * SECTOR_SIZE + SECTOR_SIZE
    IN  \A i \in DOMAIN frustum :
            ~(frustum[i].a * px + frustum[i].b * py + frustum[i].c * pz
                  + 2 * frustum[i].d <= -(2 * SECTOR_SIZE))

\* The six planes (right, left, bottom, top, far, near) of a camera that
\* sees the box of half-extent e around the world point (cx, cy, cz).
BoxFrustum(cx, cy, cz, e) ==
    << Plane(-1, 0, 0, cx + e), Plane(1, 0, 0, e - cx),
       Plane(0, 1, 0, e - cy),  Plane(0, -1, 0, cy + e),
       Plane(0, 0, -1, cz + e), Plane(0, 0, 1, e - cz) >>

\* The frusta a draw call is given: one around the origin, one far from it.
Frusta ==
    { BoxFrustum(0, 0, 0, 4 * SECTOR_SIZE),
      BoxFrustum(20 * SECTOR_SIZE, 0, 0, 4 * SECTOR_SIZE) }

\* The camera translations an update call is given (tenths of a block):
\* the origin, and a point of sector (11, -7, 10).
CameraPositions ==
    { Translation(0, 0, 0),
      Translation(110 * SECTOR_SIZE + 4, 3 - 70 * SECTOR_SIZE, 100 * SECTOR_SIZE - 4) }

(***************************************************************************)
(* Terrain::collide and Terrain::get_visible_block. COLLIDE_PADDING is 0.3 *)
(* block, 3 tenths.                                                        *)
(***************************************************************************)
COLLIDE_PADDING == 3

\* `v as u8` of an i32
AsU8(v) == v % 256

\* A lookup that also sees the blocks of a sector without a model.
get_visible_block_Unmeshed(secs, pos) ==
    LET sector_pos == sector_at(pos)
        p == << Round(pos.x), Round(pos.y), Round(pos.z) >>
    IN  IF sector_pos \in DOMAIN secs
        THEN << get(secs[sector_pos].blocks,
                    SectorSpaceCoords(AsU8(p[1] - sector_pos[1] * SECTOR_SIZE),
                                      AsU8(p[2] - sector_pos[2] * SECTOR_SIZE),
                                      AsU8(p[3] - sector_pos[3] * SECTOR_SIZE))) >>
        ELSE << >>

\* get_visible_block: << >> is None, <<b>> is Some(b).
get_visible_block(secs, pos) ==
    LET sector_pos == sector_at(pos)
        p == << Round(pos.x), Round(pos.y), Round(pos.z) >>
    IN  IF sector_pos \in DOMAIN secs
        THEN LET sector == secs[sector_pos]
             IN  IF ~sector.model.present /\ needs_rendering(sector.blocks)
                 THEN << >>
                 ELSE << get(sector.blocks,
                             SectorSpaceCoords(AsU8(p[1] - sector_pos[1] * SECTOR_SIZE),
                                               AsU8(p[2] - sector_pos[2] * SECTOR_SIZE),
                                               AsU8(p[3] - sector_pos[3] * SECTOR_SIZE))) >>
        ELSE << >>

\* match get_visible_block(..) { Some(b) => !b.is_air(), None => false }
SolidAt(secs, pos) ==
    LET b == get_visible_block(secs, pos)
    IN  IF b = << >> THEN FALSE ELSE ~is_air(b[1])

\* A back block whose margin leaves the padding out.
CollideBack_NoPadding(secs, t) ==
    LET back_t == Translation(t.x, t.y, 10 * Round(t.z) - 10)
        margin == back_t.z + 10
    IN  IF SolidAt(secs, back_t) /\ t.z < margin THEN [t EXCEPT !.z = margin] ELSE t

\* The six blocks of collide, in the order of the code.
CollideBack(secs, t) ==
    LET back_t == Translation(t.x, t.y, 10 * Round(t.z) - 10)
        margin == back_t.z + 10 + COLLIDE_PADDING
    IN  IF SolidAt(secs, back_t) /\ t.z < margin THEN [t EXCEPT !.z = margin] ELSE t

CollideFront(secs, t) ==
    LET front_t == Translation(t.x, t.y, 10 * Round(t.z) + 10)
        margin == front_t.z - 10 - COLLIDE_PADDING
    IN  IF SolidAt(secs, front_t) /\ t.z > margin THEN [t EXCEPT !.z = margin] ELSE t

CollideAbove(secs, t) ==
    LET above_t == Translation(t.x, 10 * Round(t.y) + 10, t.z)
        margin == above_t.y - 10 - COLLIDE_PADDING
    IN  IF SolidAt(secs, above_t) /\ t.y > margin THEN [t EXCEPT !.y = margin] ELSE t

CollideBelow(secs, t) ==
    LET below_t == Translation(t.x, 10 * Round(t.y) - 10, t.z)
        margin == below_t.y + 10 + COLLIDE_PADDING
    IN  IF SolidAt(secs, below_t) /\ t.y < margin THEN [t EXCEPT !.y = margin] ELSE t

CollideLeft(secs, t) ==
    LET left_t == Translation(10 * Round(t.x) - 10, t.y, t.z)
        margin == left_t.x + 10 + COLLIDE_PADDING
    IN  IF SolidAt(secs, left_t) /\ t.x < margin THEN [t EXCEPT !.x = margin] ELSE t

CollideRight(secs, t) ==
    LET right_t == Translation(10 * Round(t.x) + 10, t.y, t.z)
        margin == right_t.x - 10 - COLLIDE_PADDING
    IN  IF SolidAt(secs, right_t) /\ t.x > margin THEN [t EXCEPT !.x = margin] ELSE t

collide(secs, translation) ==
    CollideRight(secs,
      CollideLeft(secs,
        CollideBelow(secs,
          CollideAbove(secs,
            CollideFront(secs,
              CollideBack(secs, translation))))))

\* The translations handed to collide (tenths of a block): on x and z
\* outside, at the edge of and inside the sector at the origin; on y above
\* the ground, in the sector below the origin and under it.
AxisInputs == { -14, -8, 2, 10 * SECTOR_SIZE - 2, 10 * SECTOR_SIZE + 4 }

HeightInputs == { 14, 6, 2, -12, -(10 * SECTOR_SIZE) - 8 }

CollideInputs ==
    { Translation(x, y, z) : x \in AxisInputs, y \in HeightInputs, z \in AxisInputs }

(***************************************************************************)
(* State.                                                                  *)
(***************************************************************************)
VARIABLES
    sectors,      \* Terrain.sectors: coordinate -> Sector
    player_pos,   \* shared_info.player_pos (the camera translation of the last update)
    nearby,       \* the channel nearby_tx -> nearby_rx
    needed,       \* the channel needed_tx -> needed_rx
    queue,        \* the VecDeque behind the work-queue mutex
    mainPc,       \* main thread: "idle", "drain", "retain", "draw", "panicked"
    dropped,      \* the Terrain has been dropped
    rendered,     \* what the last draw call of this frame rendered
    scPc,         \* scanner thread: "loop", "drain", "done"
    scSector,     \* scanner: the sector of the player position it read
    scans,        \* scans started so far
    wPc,          \* worker -> "pop", "gen", "send", "sleep", "done"
    wItem,        \* worker -> << >> or <<coords>>, the popped item
    wBlocks,      \* worker -> << >> or <<block list>>, the generated list
    moves,        \* camera moves so far
    lastRecv,     \* what the last received message led to
    collideCall,  \* the last call of Terrain::collide: its argument before and after
    voxelCall,    \* the BlockList a caller owns and the last voxel call made on it
    mutex,        \* who holds the shared_info mutex and who the work-queue mutex
    scNeeded,     \* scanner: << >> or <<coords>>, the coordinate try_recv returned
    claims        \* history of the work queue: the serial number of each entry
                  \* in it, how many were pushed, the serial numbers taken so far

vars == << sectors, player_pos, nearby, needed, queue, mainPc, dropped, rendered,
           scPc, scSector, scans, wPc, wItem, wBlocks, moves, lastRecv,
           collideCall, voxelCall, mutex, scNeeded, claims >>

\* Both mutexes free; an empty queue nothing was pushed to.
Free == << "none", 0 >>
MainThread == << "main", 0 >>
ScannerThread == << "scanner", 0 >>
WorkerThread(w) == << "worker", w >>

NoHolder == [shared_info |-> Free, queue |-> Free]

NoClaims == [ids |-> << >>, pushed |-> 0, taken |-> << >>]

\* No call of collide yet; no BlockList handed out yet.
NoCollide == [called |-> FALSE, input |-> Translation(0, 0, 0),
              output |-> Translation(0, 0, 0)]

NoVoxel == [list |-> new_air, sets |-> 0, op |-> "none", arg |-> << >>,
            result |-> << >>]

NoDraw == [drawn |-> FALSE, frustum |-> << >>, set |-> {}]

\* The state Terrain::new leaves, with nw worker threads spawned.
InitWith(nw) ==
    /\ sectors = << >>
    /\ player_pos = Translation(0, 0, 0)
    /\ nearby = << >>
    /\ needed = << >>
    /\ queue = << >>
    /\ mainPc = "idle"
    /\ dropped = FALSE
    /\ rendered = NoDraw
    /\ scPc = "loop"
    /\ scSector = <<0, 0, 0>>
    /\ scans = 0
    /\ wPc = [w \in 1..nw |-> "pop"]
    /\ wItem = [w \in 1..nw |-> << >>]
    /\ wBlocks = [w \in 1..nw |-> << >>]
    /\ moves = 0
    /\ lastRecv = "none"
    /\ collideCall = NoCollide
    /\ voxelCall = NoVoxel
    /\ mutex = NoHolder
    /\ scNeeded = << >>
    /\ claims = NoClaims

(***************************************************************************)
(* Messages of the nearby channel.                                         *)
(***************************************************************************)
Query(sector, should_render) ==
    [type |-> "Query", sector |-> sector, should_render |-> should_render,
     blocks |-> << >>]

Generated(sector, block_list) ==
    [type |-> "Generated", sector |-> sector, should_render |-> FALSE,
     blocks |-> block_list]

(***************************************************************************)
(* Terrain::update.                                                        *)
(***************************************************************************)
\* The outcome of the Query arm: the map, the coordinate sent on needed_tx
\* (<< >> when none), and whether the arm leaves the drain loop.
Outcome(secs, send, brk) == [sectors |-> secs, send |-> send, brk |-> brk]

\* Adjacent sector coordinates with top and bottom exchanged.
Neighbours_TopBottomSwapped(c) ==
    [back   |-> <<c[1], c[2], c[3] - 1>>,
     front  |-> <<c[1], c[2], c[3] + 1>>,
     top    |-> <<c[1], c[2] - 1, c[3]>>,
     bottom |-> <<c[1], c[2] + 1, c[3]>>,
     left   |-> <<c[1] - 1, c[2], c[3]>>,
     right  |-> <<c[1] + 1, c[2], c[3]>>]

Neighbours(c) ==
    [back   |-> <<c[1], c[2], c[3] - 1>>,
     front  |-> <<c[1], c[2], c[3] + 1>>,
     top    |-> <<c[1], c[2] + 1, c[3]>>,
     bottom |-> <<c[1], c[2] - 1, c[3]>>,
     left   |-> <<c[1] - 1, c[2], c[3]>>,
     right  |-> <<c[1] + 1, c[2], c[3]>>]

\* A Query arm that inserts a placeholder sector for a coordinate that was
\* only requested.
HandleQuery_InsertRequested(secs, sector_coords, should_render) ==
    IF sector_coords \in DOMAIN secs
    THEN Outcome(secs, << >>, TRUE)
    ELSE Outcome([k \in DOMAIN secs \cup {sector_coords} |->
                     IF k = sector_coords THEN Sector_new(new_air) ELSE secs[k]],
                 << sector_coords >>, FALSE)

\* A Query arm that meshes against an all-air sector where a neighbour is
\* missing.
HandleQuery_MissingAsAir(secs, sector_coords, should_render) ==
    IF sector_coords \in DOMAIN secs
    THEN IF ~should_render
         THEN Outcome(secs, << >>, TRUE)
         ELSE LET sector == secs[sector_coords]
                  n == Neighbours(sector_coords)
                  at(c) == IF c \in DOMAIN secs THEN secs[c] ELSE Sector_new(new_air)
              IN  IF ~needs_rendering(sector.blocks) \/ sector.model.present
                  THEN Outcome(secs, << >>, TRUE)
                  ELSE LET adjacent == AdjacentSectors(at(n.back), at(n.front),
                                                       at(n.top), at(n.bottom),
                                                       at(n.left), at(n.right))
                           model == create_model(sector, adjacent)
                       IN  Outcome([secs EXCEPT ![sector_coords] = set_model(sector, model)],
                                   << >>, FALSE)
    ELSE Outcome(secs, << sector_coords >>, FALSE)

\* A Query arm that, for a sector that already has a model, takes the model
\* away instead of leaving the sector alone.
HandleQuery_ClearsModel(secs, sector_coords, should_render) ==
    IF sector_coords \in DOMAIN secs
    THEN IF ~should_render
         THEN Outcome(secs, << >>, TRUE)
         ELSE LET sector == secs[sector_coords]
                  n == Neighbours(sector_coords)
              IN  IF ~needs_rendering(sector.blocks)
                  THEN Outcome(secs, << >>, TRUE)
                  ELSE IF sector.model.present
                  THEN Outcome([secs EXCEPT ![sector_coords] = Sector_new(sector.blocks)],
                               << >>, TRUE)
                  ELSE IF \/ n.back \notin DOMAIN secs
                          \/ n.front \notin DOMAIN secs
                          \/ n.top \notin DOMAIN secs
                          \/ n.bottom \notin DOMAIN secs
                          \/ n.left \notin DOMAIN secs
                          \/ n.right \notin DOMAIN secs
                  THEN Outcome(secs, << >>, TRUE)
                  ELSE LET adjacent == AdjacentSectors(secs[n.back], secs[n.front],
                                                       secs[n.top], secs[n.bottom],
                                                       secs[n.left], secs[n.right])
                           model == create_model(sector, adjacent)
                       IN  Outcome([secs EXCEPT ![sector_coords] = set_model(sector, model)],
                                   << >>, FALSE)
    ELSE Outcome(secs, << sector_coords >>, FALSE)

HandleQuery(secs, sector_coords, should_render) ==
    IF sector_coords \in DOMAIN secs
    THEN IF ~should_render
         THEN Outcome(secs, << >>, TRUE)
         ELSE LET sector == secs[sector_coords]
                  n == Neighbours(sector_coords)
              IN  IF ~needs_rendering(sector.blocks) \/ sector.model.present
                  THEN Outcome(secs, << >>, TRUE)
                  ELSE IF \/ n.back \notin DOMAIN secs
                          \/ n.front \notin DOMAIN secs
                          \/ n.top \notin DOMAIN secs
                          \/ n.bottom \notin DOMAIN secs
                          \/ n.left \notin DOMAIN secs
                          \/ n.right \notin DOMAIN secs
                  THEN Outcome(secs, << >>, TRUE)
                  ELSE LET adjacent == AdjacentSectors(secs[n.back], secs[n.front],
                                                       secs[n.top], secs[n.bottom],
                                                       secs[n.left], secs[n.right])
                           model == create_model(sector, adjacent)
                       IN  Outcome([secs EXCEPT ![sector_coords] = set_model(sector, model)],
                                   << >>, FALSE)
    ELSE Outcome(secs, << sector_coords >>, FALSE)

\* A Generated arm that receives the sector with a mesh already attached.
HandleGenerated_WithMesh(secs, sector_coords, block_list) ==
    IF sector_coords \in DOMAIN secs
    THEN secs
    ELSE [k \in DOMAIN secs \cup {sector_coords} |->
             IF k = sector_coords
             THEN set_model(Sector_new(block_list), SomeModel(<< >>))
             ELSE secs[k]]

\* A Generated arm that stores every result (HashMap::insert).
HandleGenerated_Replaces(secs, sector_coords, block_list) ==
    [k \in DOMAIN secs \cup {sector_coords} |->
        IF k = sector_coords THEN Sector_new(block_list) ELSE secs[k]]

\* A Generated arm that accepts results in the order of the requests only:
\* a result is dropped while the sector below it, requested before it, is
\* not resident.
HandleGenerated_InOrder(secs, sector_coords, block_list) ==
    IF sector_coords \in DOMAIN secs
    THEN secs
    ELSE IF /\ sector_coords[2] > -ScanDepth
            /\ << sector_coords[1], sector_coords[2] - 1, sector_coords[3] >>
                  \notin DOMAIN secs
    THEN secs
    ELSE [k \in DOMAIN secs \cup {sector_coords} |->
             IF k = sector_coords THEN Sector_new(block_list) ELSE secs[k]]

\* The Generated arm: entry(sector_coords).or_insert_with(|| Sector::new(block_list)).
HandleGenerated(secs, sector_coords, block_list) ==
    IF sector_coords \in DOMAIN secs
    THEN secs
    ELSE [k \in DOMAIN secs \cup {sector_coords} |->
             IF k = sector_coords THEN Sector_new(block_list) ELSE secs[k]]

dist_sq(k, sector) ==
    LET dx == k[1] - sector[1]
        dy == k[2] - sector[2]
        dz == k[3] - sector[3]
    IN  dx * dx + dy * dy + dz * dz

\* A retain closure that keeps the boundary distance.
Retained_Inclusive(k, sector) == dist_sq(k, sector) <= RETAIN_DIST_SQ

\* The closure of sectors.retain.
Retained(k, sector) == dist_sq(k, sector) < RETAIN_DIST_SQ

Retain(secs, sector) ==
    [k \in {k \in DOMAIN secs : Retained(k, sector)} |-> secs[k]]

\* needed_tx.send fails once the scanner thread, which owns needed_rx, returned.
NeededSendFails == scPc = "done"

UpdateBegin(t, maxMoves) ==
    /\ mainPc = "idle"
    /\ ~dropped
    /\ t # player_pos => moves < maxMoves
    /\ moves' = IF t # player_pos THEN moves + 1 ELSE moves
    /\ player_pos' = t
    /\ mainPc' = "drain"
    /\ rendered' = NoDraw
    /\ UNCHANGED << mutex, scNeeded, claims, collideCall, voxelCall, sectors, nearby, needed, queue, dropped, scPc, scSector,
                    scans, wPc, wItem, wBlocks, lastRecv >>

\* One iteration of the while-let loop: try_recv returned Ok(nearby).
UpdateRecv ==
    /\ mainPc = "drain"
    /\ nearby # << >>
    /\ LET msg == Head(nearby)
       IN  /\ nearby' = Tail(nearby)
           /\ IF msg.type = "Query"
              THEN LET r == HandleQuery(sectors, msg.sector, msg.should_render)
                   IN  /\ sectors' = r.sectors
                       /\ lastRecv' = "query"
                       /\ IF r.send # << >> /\ NeededSendFails
                          THEN /\ mainPc' = "panicked"
                               /\ needed' = needed
                          ELSE /\ needed' = needed \o r.send
                               /\ IF r.brk
                                  THEN mainPc' = "retain"
                                  ELSE mainPc' \in {"drain", "retain"}
              ELSE /\ sectors' = HandleGenerated(sectors, msg.sector, msg.blocks)
                   /\ lastRecv' = IF msg.sector \in DOMAIN sectors
                                  THEN "discarded" ELSE "inserted"
                   /\ needed' = needed
                   /\ mainPc' \in {"drain", "retain"}
    /\ UNCHANGED << mutex, scNeeded, claims, collideCall, voxelCall, player_pos, queue, dropped, rendered, scPc, scSector,
                    scans, wPc, wItem, wBlocks, moves >>

\* The loop is left (try_recv found nothing, a break, or the time budget) and
\* sectors.retain runs.
UpdateRetain ==
    /\ mainPc = "retain" \/ (mainPc = "drain" /\ nearby = << >>)
    /\ sectors' = Retain(sectors, sector_at(player_pos))
    /\ mainPc' = "draw"
    /\ UNCHANGED << mutex, scNeeded, claims, collideCall, voxelCall, player_pos, nearby, needed, queue, dropped, rendered, scPc,
                    scSector, scans, wPc, wItem, wBlocks, moves, lastRecv >>

\* Terrain::draw: the sectors that have a model and pass sector_visible.
RenderSet(secs, frustum) ==
    {c \in DOMAIN secs : secs[c].model.present /\ sector_visible(frustum, c)}

Draw(frustum) ==
    /\ mainPc = "draw"
    /\ rendered' = [drawn |-> TRUE, frustum |-> frustum,
                    set |-> RenderSet(sectors, frustum)]
    /\ mainPc' = "idle"
    /\ UNCHANGED << mutex, scNeeded, claims, collideCall, voxelCall, sectors, player_pos, nearby, needed, queue, dropped, scPc,
                    scSector, scans, wPc, wItem, wBlocks, moves, lastRecv >>

\* The owner drops the Terrain: nearby_rx and needed_tx are closed, what
\* nearby still held is discarded.
Drop ==
    /\ mainPc = "idle"
    /\ ~dropped
    /\ dropped' = TRUE
    /\ nearby' = << >>
    /\ sectors' = << >>
    /\ UNCHANGED << mutex, scNeeded, claims, collideCall, voxelCall, player_pos, needed, queue, mainPc, rendered, scPc, scSector,
                    scans, wPc, wItem, wBlocks, moves, lastRecv >>

(***************************************************************************)
(* The scanner thread of TerrainGenThread::spawn.                          *)
(***************************************************************************)
\* A scan bounded to the first len entries of GENERATE_ORDER on x and on z
\* and to dy in -depth..0 sends this many Queries.
ScanCount(len, depth) == len * (depth + 1) * len

\* The offsets (dx, dy, dz) of the i-th Query of a scan, i from 0: dx is the
\* outer loop, dy the middle one, dz the inner one.
ScanOffset(len, depth, i) ==
    << GENERATE_ORDER[(i \div ((depth + 1) * len)) + 1],
       ((i \div len) % (depth + 1)) - depth,
       GENERATE_ORDER[(i % len) + 1] >>

ScanQuery(len, depth, sector, i) ==
    LET d == ScanOffset(len, depth, i)
    IN  Query(<< sector[1] + d[1], sector[2] + d[2], sector[3] + d[3] >>,
              /\ Abs(d[1]) <= RENDER_DIST_AXIS
              /\ Abs(d[2]) <= 1
              /\ Abs(d[3]) <= RENDER_DIST_AXIS)

\* A result channel of capacity two whose full state fails the send.
NearbySendFails_Full == dropped \/ Len(nearby) >= 2

\* A send on nearby_tx fails once nearby_rx is dropped.
NearbySendFails == dropped

\* The Queries of one scan from the i-th on, in the order of the nested loops.
RECURSIVE ScanQueries(_, _, _, _)
ScanQueries(len, depth, sector, i) ==
    IF i >= ScanCount(len, depth) THEN << >>
    ELSE << ScanQuery(len, depth, sector, i) >> \o ScanQueries(len, depth, sector, i + 1)

\* The head of the loop and the nested for loops: lock shared_info, copy
\* player_pos, take its sector and send one Query per offset; the thread
\* returns at the first send that fails.
ScannerScan(len, depth, maxScans) ==
    /\ scPc = "loop"
    /\ scans < maxScans \/ dropped
    /\ scSector' = sector_at(player_pos)
    /\ IF NearbySendFails
       THEN /\ scPc' = "done"
            /\ UNCHANGED << nearby, scans >>
       ELSE /\ nearby' = nearby \o ScanQueries(len, depth, sector_at(player_pos), 0)
            /\ scans' = scans + 1
            /\ scPc' = "drain"
    /\ UNCHANGED << mutex, scNeeded, claims, collideCall, voxelCall, sectors, player_pos, needed, queue, mainPc, dropped, rendered,
                    wPc, wItem, wBlocks, moves, lastRecv >>

\* while let Ok(needed) = needed_rx.try_recv(): every coordinate the channel
\* holds is pushed to the back of the queue, each under the queue lock; then
\* the thread sleeps and loops.
ScannerDrain ==
    /\ scPc = "drain"
    /\ queue' = queue \o needed
    /\ needed' = << >>
    /\ scPc' = "loop"
    /\ UNCHANGED << mutex, scNeeded, claims, collideCall, voxelCall, sectors, player_pos, nearby, mainPc, dropped, rendered,
                    scSector, scans, wPc, wItem, wBlocks, moves, lastRecv >>

(***************************************************************************)
(* The worker threads of TerrainGenThread::spawn.                          *)
(***************************************************************************)
\* queue.lock().unwrap().pop_front()
WorkerPop(w) ==
    /\ wPc[w] = "pop"
    /\ IF queue # << >>
       THEN /\ wItem' = [wItem EXCEPT ![w] = << Head(queue) >>]
            /\ queue' = Tail(queue)
            /\ wPc' = [wPc EXCEPT ![w] = "gen"]
       ELSE /\ wPc' = [wPc EXCEPT ![w] = "sleep"]
            /\ UNCHANGED << wItem, queue >>
    /\ UNCHANGED << mutex, scNeeded, claims, collideCall, voxelCall, sectors, player_pos, nearby, needed, mainPc, dropped, rendered,
                    scPc, scSector, scans, wBlocks, moves, lastRecv >>

\* gen.generate(coords)
\* A generation whose result depends on the worker's own generator clone.
WorkerGenerate_PerClone(w) ==
    /\ wPc[w] = "gen"
    /\ wBlocks' = [wBlocks EXCEPT
                     ![w] = << IF w = 1 THEN generate(wItem[w][1]) ELSE new_air >>]
    /\ wPc' = [wPc EXCEPT ![w] = "send"]
    /\ UNCHANGED << mutex, scNeeded, claims, collideCall, voxelCall, sectors, player_pos, nearby, needed,
                    queue, mainPc, dropped, rendered, scPc, scSector, scans,
                    wItem, moves, lastRecv >>

WorkerGenerate(w) ==
    /\ wPc[w] = "gen"
    /\ wBlocks' = [wBlocks EXCEPT ![w] = << generate(wItem[w][1]) >>]
    /\ wPc' = [wPc EXCEPT ![w] = "send"]
    /\ UNCHANGED << mutex, scNeeded, claims, collideCall, voxelCall, sectors, player_pos, nearby, needed, queue, mainPc, dropped,
                    rendered, scPc, scSector, scans, wItem, moves, lastRecv >>

\* nearby_tx.send(Nearby::Generated(coords, block_list)); an error returns.
WorkerSend(w) ==
    /\ wPc[w] = "send"
    /\ IF NearbySendFails
       THEN /\ wPc' = [wPc EXCEPT ![w] = "done"]
            /\ UNCHANGED nearby
       ELSE /\ nearby' = Append(nearby, Generated(wItem[w][1], wBlocks[w][1]))
            /\ wPc' = [wPc EXCEPT ![w] = "sleep"]
    /\ wItem' = [wItem EXCEPT ![w] = << >>]
    /\ wBlocks' = [wBlocks EXCEPT ![w] = << >>]
    /\ UNCHANGED << mutex, scNeeded, claims, collideCall, voxelCall, sectors, player_pos, needed, queue, mainPc, dropped, rendered,
                    scPc, scSector, scans, moves, lastRecv >>

\* thread::sleep(Duration::from_millis(5)), then the next iteration.
WorkerSleep(w) ==
    /\ wPc[w] = "sleep"
    /\ wPc' = [wPc EXCEPT ![w] = "pop"]
    /\ UNCHANGED << mutex, scNeeded, claims, collideCall, voxelCall, sectors, player_pos, nearby, needed, queue, mainPc, dropped,
                    rendered, scPc, scSector, scans, wItem, wBlocks, moves,
                    lastRecv >>

NextWith(nw, len, depth, maxScans, maxMoves) ==
    \/ \E t \in CameraPositions : UpdateBegin(t, maxMoves)
    \/ UpdateRecv
    \/ UpdateRetain
    \/ \E f \in Frusta : Draw(f)
    \/ Drop
    \/ ScannerScan(len, depth, maxScans)
    \/ ScannerDrain
    \/ \E w \in 1..nw : WorkerPop(w)
    \/ \E w \in 1..nw : WorkerGenerate(w)
    \/ \E w \in 1..nw : WorkerSend(w)
    \/ \E w \in 1..nw : WorkerSleep(w)

Init == InitWith(NUM_WORKERS)

Next == NextWith(NUM_WORKERS, ScanLen, ScanDepth, MaxScans, MaxMoves)

Spec == Init /\ [][Next]_vars

\* The operating system schedules every background thread again and again,
\* and a sleep ends: each step of the scanner and of a worker is weakly fair.
\* Nothing obliges the owner to call update, draw or drop.
Fairness ==
    /\ WF_vars(ScannerScan(ScanLen, ScanDepth, MaxScans))
    /\ WF_vars(ScannerDrain)
    /\ \A w \in 1..NUM_WORKERS :
          /\ WF_vars(WorkerPop(w))
          /\ WF_vars(WorkerGenerate(w))
          /\ WF_vars(WorkerSend(w))
          /\ WF_vars(WorkerSleep(w))

FairSpec == Init /\ [][Next]_vars /\ Fairness

(***************************************************************************)
(* SpecMesh starts where the first scan around the origin has been served  *)
(* in full: the scanner sent its Queries, update requested every sector,   *)
(* the scanner queued the requests, the worker generated them, update      *)
(* inserted the results and drew the frame, and the scanner is about to    *)
(* scan again.                                                             *)
(***************************************************************************)
ScanSectors(len, depth, sector) ==
    { ScanQuery(len, depth, sector, i).sector : i \in 0..(ScanCount(len, depth) - 1) }

InitResident ==
    /\ sectors = [c \in ScanSectors(MeshScanLen, MeshScanDepth, <<0, 0, 0>>) |->
                     Sector_new(generate(c))]
    /\ player_pos = Translation(0, 0, 0)
    /\ nearby = << >>
    /\ needed = << >>
    /\ queue = << >>
    /\ mainPc = "idle"
    /\ dropped = FALSE
    /\ rendered \in { [drawn |-> TRUE, frustum |-> f, set |-> {}] : f \in Frusta }
    /\ scPc = "loop"
    /\ scSector = <<0, 0, 0>>
    /\ scans = 1
    /\ wPc = [w \in 1..MeshWorkers |-> "pop"]
    /\ wItem = [w \in 1..MeshWorkers |-> << >>]
    /\ wBlocks = [w \in 1..MeshWorkers |-> << >>]
    /\ moves = 0
    /\ lastRecv = "inserted"
    /\ collideCall = NoCollide
    /\ voxelCall = NoVoxel
    /\ mutex = NoHolder
    /\ scNeeded = << >>
    /\ claims = NoClaims

NextMesh == NextWith(MeshWorkers, MeshScanLen, MeshScanDepth, MeshMaxScans, MeshMaxMoves)

SpecMesh == InitResident /\ [][NextMesh]_vars

(***************************************************************************)
(* SpecVoxel: a caller of the voxel, world_gen and mesh_gen modules. It    *)
(* owns one BlockList (a generated one, changed by set) and calls          *)
(* SectorSpaceCoords::new and the neighbour queries, the iterator and the  *)
(* mesh generator; voxelCall records the last call and what it returned.   *)
(* The caller inspects a list right after producing it (a call that leaves *)
(* the list alone follows a generate or a set), so every list meets every  *)
(* inspecting call once.                                                   *)
(***************************************************************************)
LocalCoords ==
    { <<x, y, z>> : x \in 0..(SECTOR_SIZE - 1), y \in 0..(SECTOR_SIZE - 1),
                    z \in 0..(SECTOR_SIZE - 1) }

\* The u8 components handed to SectorSpaceCoords::new.
NewInputs == 0..(SECTOR_SIZE - 1 + CoordOver)

\* The sector coordinates handed to generate.
GenSectors ==
    { <<x, y, z>> : x \in (-GenRange)..GenRange, y \in (-GenRange)..GenRange,
                    z \in (-GenRange)..GenRange }

\* The blocks handed to set.
SetBlocks == {"Air", "Loam"}

\* BlockList::new([b; SECTOR_LEN])
BlockList_new(b) == [i \in 0..(SECTOR_LEN - 1) |-> b]

\* The neighbour sectors handed to the mesh generator: five alike (all air
\* or all grass) and, in one direction, a sector with a single block that
\* differs from the rest.
UniformSectors == { Sector_new(new_air), Sector_new(BlockList_new("Grass")) }

ProbeSectors ==
    { Sector_new(set(new_air, c, "Loam")) : c \in LocalCoords }
    \cup { Sector_new(set(BlockList_new("Grass"), c, "Air")) : c \in LocalCoords }

AdjacentChoices ==
    { AdjacentSectors(IF d = 1 THEN a ELSE b, IF d = 2 THEN a ELSE b,
                      IF d = 3 THEN a ELSE b, IF d = 4 THEN a ELSE b,
                      IF d = 5 THEN a ELSE b, IF d = 6 THEN a ELSE b) :
        d \in 1..6, a \in ProbeSectors, b \in UniformSectors }

\* The neighbour query named by a face.
Neighbour(face, c) ==
    CASE face = "Back" -> back(c)
      [] face = "Front" -> front(c)
      [] face = "Top" -> top(c)
      [] face = "Bottom" -> bottom(c)
      [] face = "Left" -> left(c)
      [] face = "Right" -> right(c)

VoxelUnchanged ==
    UNCHANGED << sectors, player_pos, nearby, needed, queue, mainPc, dropped,
                 rendered, scPc, scSector, scans, wPc, wItem, wBlocks, moves,
                 lastRecv, collideCall, mutex, scNeeded, claims >>

VoxelGenerate(c) ==
    /\ voxelCall' = [list |-> generate(c), sets |-> 0, op |-> "generate",
                     arg |-> c, result |-> generate(c)]
    /\ VoxelUnchanged

VoxelSet(c, b) ==
    /\ voxelCall.sets < MaxSets
    /\ voxelCall' = [list |-> set(voxelCall.list, c, b),
                     sets |-> voxelCall.sets + 1, op |-> "set",
                     arg |-> << c, b >>, result |-> voxelCall.list]
    /\ VoxelUnchanged

\* The caller holds a list it has just produced.
VoxelFresh == voxelCall.op \in {"none", "generate", "set"}

VoxelNew(x, y, z) ==
    /\ VoxelFresh
    /\ voxelCall' = [voxelCall EXCEPT !.op = "new", !.arg = << x, y, z >>,
                                      !.result = SectorSpaceCoords(x, y, z)]
    /\ VoxelUnchanged

VoxelNeighbour(face, c) ==
    /\ VoxelFresh
    /\ voxelCall' = [voxelCall EXCEPT !.op = "neighbour", !.arg = << face, c >>,
                                      !.result = Neighbour(face, c)]
    /\ VoxelUnchanged

VoxelIter ==
    /\ VoxelFresh
    /\ voxelCall' = [voxelCall EXCEPT !.op = "iter", !.arg = << >>,
                                      !.result = BlockListIter(voxelCall.list)]
    /\ VoxelUnchanged

VoxelMesh(adjacent) ==
    /\ VoxelFresh
    /\ voxelCall' = [voxelCall EXCEPT
                       !.op = "mesh", !.arg = adjacent,
                       !.result = generate_block_vertices(voxelCall.list, adjacent)]
    /\ VoxelUnchanged

\* A terrain map that holds the caller's list as sector (0,0,0) and the six
\* sectors around it.
MapAround(list, adjacent) ==
    ( <<0, 0, 0>> :> Sector_new(list) ) @@
    ( <<0, 0, -1>> :> adjacent.back ) @@ ( <<0, 0, 1>> :> adjacent.front ) @@
    ( <<0, 1, 0>> :> adjacent.top ) @@ ( <<0, -1, 0>> :> adjacent.bottom ) @@
    ( <<-1, 0, 0>> :> adjacent.left ) @@ ( <<1, 0, 0>> :> adjacent.right )

\* The Query arm of update on such a map, for sector (0,0,0).
VoxelUpdate(adjacent) ==
    /\ VoxelFresh
    /\ LET secs == MapAround(voxelCall.list, adjacent)
       IN  voxelCall' = [voxelCall EXCEPT
                           !.op = "update", !.arg = secs,
                           !.result = HandleQuery(secs, <<0, 0, 0>>, TRUE)
                                        .sectors[<<0, 0, 0>>].model]
    /\ VoxelUnchanged

NextVoxel ==
    \/ \E c \in GenSectors : VoxelGenerate(c)
    \/ \E c \in LocalCoords, b \in SetBlocks : VoxelSet(c, b)
    \/ \E x, y, z \in NewInputs : VoxelNew(x, y, z)
    \/ \E i \in DOMAIN Faces, c \in LocalCoords : VoxelNeighbour(Faces[i], c)
    \/ VoxelIter
    \/ \E adjacent \in AdjacentChoices : VoxelMesh(adjacent)
    \/ \E adjacent \in AdjacentChoices : VoxelUpdate(adjacent)

SpecVoxel == Init /\ [][NextVoxel]_vars

(***************************************************************************)
(* SpecCollide: the owner calls collide between two frames, on the empty   *)
(* map Terrain::new leaves, on the map of InitResident, or on that map     *)
(* after update meshed sector (0,-1,0), the one sector of it whose six     *)
(* neighbours are resident, and the frame was drawn.                       *)
(***************************************************************************)
Collide(t) ==
    /\ mainPc = "idle"
    /\ ~dropped
    /\ collideCall' = [called |-> TRUE, input |-> t, output |-> collide(sectors, t)]
    /\ UNCHANGED << mutex, scNeeded, claims, voxelCall, sectors, player_pos, nearby, needed, queue, mainPc,
                    dropped, rendered, scPc, scSector, scans, wPc, wItem, wBlocks,
                    moves, lastRecv >>

ResidentBox ==
    [c \in ScanSectors(MeshScanLen, MeshScanDepth, <<0, 0, 0>>) |->
        Sector_new(generate(c))]

MeshedBox == HandleQuery(ResidentBox, <<0, -1, 0>>, TRUE).sectors

InitMeshed ==
    /\ sectors = MeshedBox
    /\ player_pos = Translation(0, 0, 0)
    /\ nearby = << >>
    /\ needed = << >>
    /\ queue = << >>
    /\ mainPc = "idle"
    /\ dropped = FALSE
    /\ rendered \in { [drawn |-> TRUE, frustum |-> f, set |-> RenderSet(MeshedBox, f)] :
                         f \in Frusta }
    /\ scPc = "loop"
    /\ scSector = <<0, 0, 0>>
    /\ scans = 2
    /\ wPc = [w \in 1..MeshWorkers |-> "pop"]
    /\ wItem = [w \in 1..MeshWorkers |-> << >>]
    /\ wBlocks = [w \in 1..MeshWorkers |-> << >>]
    /\ moves = 0
    /\ lastRecv = "query"
    /\ collideCall = NoCollide
    /\ voxelCall = NoVoxel
    /\ mutex = NoHolder
    /\ scNeeded = << >>
    /\ claims = NoClaims

\* The map after two scans that follow CollideScanLen entries of
\* GENERATE_ORDER: the first was served in full, and update handled every
\* Query of the second, over as many calls as its breaks made necessary. No
\* sector is far enough to be evicted.
WideBox ==
    [c \in ScanSectors(CollideScanLen, MeshScanDepth, <<0, 0, 0>>) |->
        Sector_new(generate(c))]

\* The Queries of that scan.
WideQueries ==
    { ScanQuery(CollideScanLen, MeshScanDepth, <<0, 0, 0>>, i) :
         i \in 0..(ScanCount(CollideScanLen, MeshScanDepth) - 1) }

\* The Query arm reads the blocks of the neighbours and writes the model of
\* its own sector only, so the order of the Queries does not show.
MeshedWide ==
    [c \in DOMAIN WideBox |->
        LET q == CHOOSE q \in WideQueries : q.sector = c
        IN  HandleQuery(WideBox, c, q.should_render).sectors[c]]

InitMeshedWide ==
    /\ sectors = MeshedWide
    /\ player_pos = Translation(0, 0, 0)
    /\ nearby = << >>
    /\ needed = << >>
    /\ queue = << >>
    /\ mainPc = "idle"
    /\ dropped = FALSE
    /\ rendered \in { [drawn |-> TRUE, frustum |-> f, set |-> RenderSet(MeshedWide, f)] :
                         f \in Frusta }
    /\ scPc = "loop"
    /\ scSector = <<0, 0, 0>>
    /\ scans = 2
    /\ wPc = [w \in 1..MeshWorkers |-> "pop"]
    /\ wItem = [w \in 1..MeshWorkers |-> << >>]
    /\ wBlocks = [w \in 1..MeshWorkers |-> << >>]
    /\ moves = 0
    /\ lastRecv = "query"
    /\ collideCall = NoCollide
    /\ voxelCall = NoVoxel
    /\ mutex = NoHolder
    /\ scNeeded = << >>
    /\ claims = NoClaims

InitCollide == Init \/ InitResident \/ InitMeshed \/ InitMeshedWide

NextCollide == \E t \in CollideInputs : Collide(t)

SpecCollide == InitCollide /\ [][NextCollide]_vars

(***************************************************************************)
(* SpecRemesh starts where SpecCollide finds its meshed map: sector        *)
(* (0,-1,0) has its model and the scanner is about to scan for the third   *)
(* time, so update receives Queries for a sector that is already meshed.   *)
(***************************************************************************)
NextRemesh ==
    NextWith(MeshWorkers, MeshScanLen, MeshScanDepth, MeshMaxScans + 1, MeshMaxMoves)

SpecRemesh == InitMeshed /\ [][NextRemesh]_vars

(***************************************************************************)
(* SpecDup starts where the first scan was served while the second was     *)
(* under way: the worker had sent the first three results when the scanner *)
(* sent the Queries of its second scan, so update requested a second time  *)
(* every coordinate from the fourth on, then received the rest of the      *)
(* results; the scanner queued the second requests and scanned a third     *)
(* time, and three update calls handled the first three Queries of that    *)
(* scan (each breaks). The map is that of InitResident, the queue holds    *)
(* the requests made twice and the channel the rest of the third scan.     *)
(***************************************************************************)
\* How many results had arrived before the Queries of the second scan.
EarlyResults == MeshScanLen

DuplicateRequests ==
    [n \in 1..(ScanCount(MeshScanLen, MeshScanDepth) - EarlyResults) |->
        ScanQuery(MeshScanLen, MeshScanDepth, <<0, 0, 0>>, n + EarlyResults - 1).sector]

InitDuplicates ==
    /\ sectors = ResidentBox
    /\ player_pos = Translation(0, 0, 0)
    /\ nearby = ScanQueries(MeshScanLen, MeshScanDepth, <<0, 0, 0>>, EarlyResults)
    /\ needed = << >>
    /\ queue = DuplicateRequests
    /\ mainPc = "idle"
    /\ dropped = FALSE
    /\ rendered \in { [drawn |-> TRUE, frustum |-> f, set |-> {}] : f \in Frusta }
    /\ scPc = "drain"
    /\ scSector = <<0, 0, 0>>
    /\ scans = MeshMaxScans + 1
    /\ wPc = [w \in 1..MeshWorkers |-> "pop"]
    /\ wItem = [w \in 1..MeshWorkers |-> << >>]
    /\ wBlocks = [w \in 1..MeshWorkers |-> << >>]
    /\ moves = 0
    /\ lastRecv = "query"
    /\ collideCall = NoCollide
    /\ voxelCall = NoVoxel
    /\ mutex = NoHolder
    /\ scNeeded = << >>
    /\ claims = NoClaims

SpecDup == InitDuplicates /\ [][NextRemesh]_vars

(***************************************************************************)
(* SpecLock: the same threads at the grain of their mutex operations. A    *)
(* lock() call is one step, enabled while the mutex is free; the guard is  *)
(* dropped at the end of the statement that took it (or by mem::drop), in  *)
(* the step that does the statement's work. pop_front is two steps, the    *)
(* read of the front entry and its removal from the deque, both under the  *)
(* guard. claims numbers the entries in the order they are pushed.         *)
(***************************************************************************)
\* update is called: the main thread is about to lock shared_info.
UpdateEnter ==
    /\ mainPc = "idle"
    /\ ~dropped
    /\ mainPc' = "lock_info"
    /\ UNCHANGED << sectors, player_pos, nearby, needed, queue, dropped, rendered,
                    scPc, scSector, scans, wPc, wItem, wBlocks, moves, lastRecv,
                    collideCall, voxelCall, mutex, scNeeded, claims >>

\* self.shared_info.lock()
UpdateLockInfo ==
    /\ mainPc = "lock_info"
    /\ mutex.shared_info = Free
    /\ mutex' = [mutex EXCEPT !.shared_info = MainThread]
    /\ mainPc' = "store"
    /\ UNCHANGED << sectors, player_pos, nearby, needed, queue, dropped, rendered,
                    scPc, scSector, scans, wPc, wItem, wBlocks, moves, lastRecv,
                    collideCall, voxelCall, scNeeded, claims >>

\* .unwrap().player_pos = translation.clone(); the guard is dropped.
UpdateStorePos(t, maxMoves) ==
    /\ mainPc = "store"
    /\ t # player_pos => moves < maxMoves
    /\ moves' = IF t # player_pos THEN moves + 1 ELSE moves
    /\ player_pos' = t
    /\ mutex' = [mutex EXCEPT !.shared_info = Free]
    /\ mainPc' = "drain"
    /\ rendered' = NoDraw
    /\ UNCHANGED << sectors, nearby, needed, queue, dropped, scPc, scSector, scans,
                    wPc, wItem, wBlocks, lastRecv, collideCall, voxelCall, scNeeded,
                    claims >>

\* let info = self.shared_info.lock().unwrap();
ScannerLockInfo(maxScans) ==
    /\ scPc = "loop"
    /\ scans < maxScans \/ dropped
    /\ mutex.shared_info = Free
    /\ mutex' = [mutex EXCEPT !.shared_info = ScannerThread]
    /\ scPc' = "info"
    /\ UNCHANGED << sectors, player_pos, nearby, needed, queue, mainPc, dropped,
                    rendered, scSector, scans, wPc, wItem, wBlocks, moves, lastRecv,
                    collideCall, voxelCall, scNeeded, claims >>

\* A scanner that keeps the shared_info guard (no mem::drop) while it
\* scans and pushes.
ScannerReadPos_KeepGuard ==
    /\ scPc = "info"
    /\ scSector' = sector_at(player_pos)
    /\ scPc' = "scan"
    /\ UNCHANGED << sectors, player_pos, nearby, needed, queue, mainPc, dropped,
                    rendered, scans, wPc, wItem, wBlocks, moves, lastRecv,
                    collideCall, voxelCall, scNeeded, claims, mutex >>

\* let player_pos = info.player_pos.clone(); mem::drop(info); sector_at
ScannerReadPos ==
    /\ scPc = "info"
    /\ scSector' = sector_at(player_pos)
    /\ mutex' = [mutex EXCEPT !.shared_info = Free]
    /\ scPc' = "scan"
    /\ UNCHANGED << sectors, player_pos, nearby, needed, queue, mainPc, dropped,
                    rendered, scans, wPc, wItem, wBlocks, moves, lastRecv,
                    collideCall, voxelCall, scNeeded, claims >>

\* The nested for loops: one Query per offset; the thread returns at the
\* first send that fails.
ScannerSend(len, depth) ==
    /\ scPc = "scan"
    /\ IF NearbySendFails
       THEN /\ scPc' = "done"
            /\ UNCHANGED << nearby, scans >>
       ELSE /\ nearby' = nearby \o ScanQueries(len, depth, scSector, 0)
            /\ scans' = scans + 1
            /\ scPc' = "drain"
    /\ UNCHANGED << sectors, player_pos, needed, queue, mainPc, dropped, rendered,
                    scSector, wPc, wItem, wBlocks, moves, lastRecv, collideCall,
                    voxelCall, mutex, scNeeded, claims >>

\* while let Ok(needed) = self.needed_rx.try_recv(); when it gives nothing
\* the thread sleeps and loops.
ScannerTryRecv ==
    /\ scPc = "drain"
    /\ IF needed = << >>
       THEN /\ scPc' = "loop"
            /\ UNCHANGED << needed, scNeeded >>
       ELSE /\ scNeeded' = << Head(needed) >>
            /\ needed' = Tail(needed)
            /\ scPc' = "lock_queue"
    /\ UNCHANGED << sectors, player_pos, nearby, queue, mainPc, dropped, rendered,
                    scSector, scans, wPc, wItem, wBlocks, moves, lastRecv,
                    collideCall, voxelCall, mutex, claims >>

\* queue1.lock()
ScannerLockQueue ==
    /\ scPc = "lock_queue"
    /\ mutex.queue = Free
    /\ mutex' = [mutex EXCEPT !.queue = ScannerThread]
    /\ scPc' = "push"
    /\ UNCHANGED << sectors, player_pos, nearby, needed, queue, mainPc, dropped,
                    rendered, scSector, scans, wPc, wItem, wBlocks, moves, lastRecv,
                    collideCall, voxelCall, scNeeded, claims >>

\* .unwrap().push_back(needed); the guard is dropped.
ScannerPush ==
    /\ scPc = "push"
    /\ queue' = Append(queue, scNeeded[1])
    /\ claims' = [claims EXCEPT !.ids = Append(@, claims.pushed + 1),
                                !.pushed = @ + 1]
    /\ scNeeded' = << >>
    /\ mutex' = [mutex EXCEPT !.queue = Free]
    /\ scPc' = "drain"
    /\ UNCHANGED << sectors, player_pos, nearby, needed, mainPc, dropped, rendered,
                    scSector, scans, wPc, wItem, wBlocks, moves, lastRecv,
                    collideCall, voxelCall >>

\* A lock() that does not wait for the mutex to be free.
WorkerLockQueue_NoMutex(w) ==
    /\ wPc[w] = "pop"
    /\ mutex' = [mutex EXCEPT !.queue = WorkerThread(w)]
    /\ wPc' = [wPc EXCEPT ![w] = "locked"]
    /\ UNCHANGED << sectors, player_pos, nearby, needed, queue, mainPc, dropped,
                    rendered, scPc, scSector, scans, wItem, wBlocks, moves,
                    lastRecv, collideCall, voxelCall, scNeeded, claims >>

\* queue.lock()
WorkerLockQueue(w) ==
    /\ wPc[w] = "pop"
    /\ mutex.queue = Free
    /\ mutex' = [mutex EXCEPT !.queue = WorkerThread(w)]
    /\ wPc' = [wPc EXCEPT ![w] = "locked"]
    /\ UNCHANGED << sectors, player_pos, nearby, needed, queue, mainPc, dropped,
                    rendered, scPc, scSector, scans, wItem, wBlocks, moves,
                    lastRecv, collideCall, voxelCall, scNeeded, claims >>

\* A pop that takes the entry pushed last.
WorkerFront_Back(w) ==
    /\ wPc[w] = "locked"
    /\ IF queue = << >>
       THEN /\ mutex' = [mutex EXCEPT !.queue = Free]
            /\ wPc' = [wPc EXCEPT ![w] = "sleep"]
            /\ UNCHANGED << wItem, claims, queue >>
       ELSE /\ wItem' = [wItem EXCEPT ![w] = << queue[Len(queue)] >>]
            /\ claims' = [claims EXCEPT
                            !.taken = Append(@, claims.ids[Len(claims.ids)]),
                            !.ids = SubSeq(@, 1, Len(@) - 1)]
            /\ queue' = SubSeq(queue, 1, Len(queue) - 1)
            /\ mutex' = [mutex EXCEPT !.queue = Free]
            /\ wPc' = [wPc EXCEPT ![w] = "gen"]
    /\ UNCHANGED << sectors, player_pos, nearby, needed, mainPc, dropped,
                    rendered, scPc, scSector, scans, wBlocks, moves, lastRecv,
                    collideCall, voxelCall, scNeeded >>

\* .unwrap().pop_front(), first half: None from an empty deque (the guard
\* is dropped), else the front entry is read.
WorkerFront(w) ==
    /\ wPc[w] = "locked"
    /\ IF queue = << >>
       THEN /\ mutex' = [mutex EXCEPT !.queue = Free]
            /\ wPc' = [wPc EXCEPT ![w] = "sleep"]
            /\ UNCHANGED << wItem, claims >>
       ELSE /\ wItem' = [wItem EXCEPT ![w] = << Head(queue) >>]
            /\ claims' = [claims EXCEPT !.taken = Append(@, Head(claims.ids))]
            /\ wPc' = [wPc EXCEPT ![w] = "unlink"]
            /\ UNCHANGED mutex
    /\ UNCHANGED << sectors, player_pos, nearby, needed, queue, mainPc, dropped,
                    rendered, scPc, scSector, scans, wBlocks, moves, lastRecv,
                    collideCall, voxelCall, scNeeded >>

\* An unlink that keeps the guard until the worker sleeps.
WorkerUnlink_KeepGuard(w) ==
    /\ wPc[w] = "unlink"
    /\ queue' = Tail(queue)
    /\ claims' = [claims EXCEPT !.ids = Tail(@)]
    /\ wPc' = [wPc EXCEPT ![w] = "gen"]
    /\ UNCHANGED << sectors, player_pos, nearby, needed, mainPc, dropped, rendered,
                    scPc, scSector, scans, wItem, wBlocks, moves, lastRecv,
                    collideCall, voxelCall, scNeeded, mutex >>

\* pop_front, second half: the front entry leaves the deque; the statement
\* ends and the guard is dropped.
WorkerUnlink(w) ==
    /\ wPc[w] = "unlink"
    /\ queue' = IF queue = << >> THEN queue ELSE Tail(queue)
    /\ claims' = [claims EXCEPT !.ids = IF @ = << >> THEN @ ELSE Tail(@)]
    /\ mutex' = [mutex EXCEPT !.queue = Free]
    /\ wPc' = [wPc EXCEPT ![w] = "gen"]
    /\ UNCHANGED << sectors, player_pos, nearby, needed, mainPc, dropped, rendered,
                    scPc, scSector, scans, wItem, wBlocks, moves, lastRecv,
                    collideCall, voxelCall, scNeeded >>

NextLockWith(nw, maxScans, maxMoves) ==
    \/ UpdateEnter
    \/ UpdateLockInfo
    \/ \E t \in CameraPositions : UpdateStorePos(t, maxMoves)
    \/ UpdateRecv
    \/ UpdateRetain
    \/ \E f \in Frusta : Draw(f)
    \/ Drop
    \/ ScannerLockInfo(maxScans)
    \/ ScannerReadPos
    \/ ScannerSend(ScanLen, ScanDepth)
    \/ ScannerTryRecv
    \/ ScannerLockQueue
    \/ ScannerPush
    \/ \E w \in 1..nw : WorkerLockQueue(w)
    \/ \E w \in 1..nw : WorkerFront(w)
    \/ \E w \in 1..nw : WorkerUnlink(w)
    \/ \E w \in 1..nw : WorkerGenerate(w)
    \/ \E w \in 1..nw : WorkerSend(w)
    \/ \E w \in 1..nw : WorkerSleep(w)

NextLock == NextLockWith(NUM_WORKERS, LockMaxScans, LockMaxMoves)

SpecLock == Init /\ [][NextLock]_vars

\* Every thread that is running keeps running: update, once called, runs to
\* its end, and the operating system schedules the scanner and the workers
\* again and again. A thread blocked in lock() gets the mutex after it was
\* released: the holders release it within the statement that took it and
\* then sleep (5 ms, 4 s) or work elsewhere, so acquisition is strongly
\* fair. Nothing obliges the owner to call update, draw or drop.
LockFairness ==
    /\ SF_vars(UpdateLockInfo)
    /\ WF_vars(\E t \in CameraPositions : UpdateStorePos(t, FairLockMoves))
    /\ WF_vars(UpdateRecv)
    /\ WF_vars(UpdateRetain)
    /\ SF_vars(ScannerLockInfo(FairLockScans))
    /\ WF_vars(ScannerReadPos)
    /\ WF_vars(ScannerSend(ScanLen, ScanDepth))
    /\ WF_vars(ScannerTryRecv)
    /\ SF_vars(ScannerLockQueue)
    /\ WF_vars(ScannerPush)
    /\ \A w \in 1..NUM_WORKERS :
          /\ SF_vars(WorkerLockQueue(w))
          /\ WF_vars(WorkerFront(w))
          /\ WF_vars(WorkerUnlink(w))
          /\ WF_vars(WorkerGenerate(w))
          /\ WF_vars(WorkerSend(w))
          /\ WF_vars(WorkerSleep(w))

FairNextLock == NextLockWith(NUM_WORKERS, FairLockScans, FairLockMoves)

FairSpecLock == Init /\ [][FairNextLock]_vars /\ LockFairness

(***************************************************************************)
(* Claims.                                                                 *)
(***************************************************************************)
Origin == <<0, 0, 0>>

\* The update call is handling the message m in this step.
Receiving(m) == mainPc = "drain" /\ nearby # << >> /\ Head(nearby) = m

\* C1: a coordinate enters the map only in a step of update that receives a
\* Generated result for it, as the Sector built from the received blocks, so
\* every sector in the map holds the generated blocks of its coordinate; a
\* coordinate that is only requested is never inserted.
C1_InsertOnlyOnGenerated ==
    /\ [](\A c \in DOMAIN sectors : sectors[c].blocks = generate(c))
    /\ [][\A c \in (DOMAIN sectors') \ (DOMAIN sectors) :
            /\ Receiving(Generated(c, generate(c)))
            /\ sectors'[c] = Sector_new(generate(c))]_vars

\* C1 witness: a generated sector is in the map while another coordinate is
\* still only requested.
C1_Witness ==
    /\ DOMAIN sectors # {}
    /\ \E i \in DOMAIN queue : queue[i] \notin DOMAIN sectors

\* Pending work: the request channel followed by the work queue.
Pending == needed \o queue

\* C2: the pending work holds at most one entry per coordinate.
C2_NoDuplicatePending ==
    \A i, j \in DOMAIN Pending : Pending[i] = Pending[j] => i = j

\* The step that ends an update call: sectors.retain has run.
RetainStep == mainPc \in {"drain", "retain"} /\ mainPc' = "draw"

\* C3 as stated: after update, a sector farther than the radius
\* (dist_sq > 280) is gone and every sector within it (dist_sq <= 280) is
\* still in the map, unchanged.
C3_RetainWithinRadius ==
    [][RetainStep =>
         \A k \in DOMAIN sectors :
            LET d == dist_sq(k, sector_at(player_pos))
            IN  /\ d > RETAIN_DIST_SQ => k \notin DOMAIN sectors'
                /\ d <= RETAIN_DIST_SQ =>
                      k \in DOMAIN sectors' /\ sectors'[k] = sectors[k]]_vars

\* C3 amended: after update, a sector at squared distance 280 or more from
\* the camera's sector is gone, and every sector that was in the map when
\* the drain loop ended and lies at squared distance below 280 is still in
\* the map with its blocks and model unchanged.
C3_RetainBelowRadius ==
    /\ [](mainPc = "draw" =>
            \A k \in DOMAIN sectors :
               dist_sq(k, sector_at(player_pos)) < RETAIN_DIST_SQ)
    /\ [][RetainStep =>
            \A k \in DOMAIN sectors :
               IF dist_sq(k, sector_at(player_pos)) >= RETAIN_DIST_SQ
               THEN k \notin DOMAIN sectors'
               ELSE k \in DOMAIN sectors' /\ sectors'[k] = sectors[k]]_vars

\* C3 witness: an update has just ended with the camera far away; a sector
\* at squared distance exactly 280 and one beyond it were evicted, and a
\* meshed sector within the radius was kept.
C3_Witness ==
    /\ mainPc = "draw"
    /\ sector_at(player_pos) = <<11, -7, 10>>
    /\ dist_sq(<<-1, -1, 0>>, sector_at(player_pos)) = RETAIN_DIST_SQ
    /\ <<-1, -1, 0>> \notin DOMAIN sectors
    /\ dist_sq(<<-1, 0, 0>>, sector_at(player_pos)) > RETAIN_DIST_SQ
    /\ <<-1, 0, 0>> \notin DOMAIN sectors
    /\ <<0, -1, 0>> \in DOMAIN sectors
    /\ sectors[<<0, -1, 0>>].model.present

\* C4: with the camera in sector (0,0,0), every draw made while sector
\* (0,0,0) is in the map renders it exactly when it is frustum-visible.
C4_OriginDrawnWhenVisible ==
    (/\ rendered.drawn
     /\ sector_at(player_pos) = Origin
     /\ Origin \in DOMAIN sectors)
    => (Origin \in rendered.set <=> sector_visible(rendered.frustum, Origin))

\* C5: some cap keeps the outstanding requests below the number of Queries
\* the scans of a run send, i.e. not every Query can become a request that
\* stays outstanding.
C5_PendingCapped ==
    Len(needed) + Len(queue) < MaxScans * ScanCount(ScanLen, ScanDepth)

\* C6: the result channel has a capacity below the number of messages the
\* scans of a run send: a producer cannot put all of them in flight.
C6_NearbyBounded ==
    Len(nearby) < MaxScans * ScanCount(ScanLen, ScanDepth)

AllThreadsDone ==
    /\ scPc = "done"
    /\ \A w \in DOMAIN wPc : wPc[w] = "done"

\* C7: once the Terrain is dropped, the scanner thread and every worker
\* thread eventually return.
C7_ShutdownTerminates == dropped ~> AllThreadsDone

\* C8: no thread panics on a channel: update never reaches the unwrap of a
\* failed needed_tx.send, and the scanner and the workers return only after
\* the Terrain closed the channel.
C8_NoChannelPanic ==
    /\ mainPc # "panicked"
    /\ scPc = "done" => dropped
    /\ \A w \in DOMAIN wPc : wPc[w] = "done" => dropped

\* C8 witness: update has just sent a request for a non-resident coordinate
\* while a worker is in the middle of its loop.
C8_Witness ==
    /\ lastRecv = "query"
    /\ mainPc \in {"drain", "retain"}
    /\ needed # << >>
    /\ \E w \in DOMAIN wPc : wPc[w] = "send"

\* C9: every Generated result update receives is used to construct the
\* Sector stored for its coordinate; none is thrown away.
C9_EveryResultBuildsSector == lastRecv # "discarded"

ScanStep == scPc = "loop" /\ scPc' = "drain"

ScanSent == SubSeq(nearby', Len(nearby) + 1, Len(nearby'))

\* The number of axes on which two coordinates differ.
AxesDiffering(a, b) == Cardinality({ k \in 1..3 : a[k] # b[k] })

\* C11: a scan requests the camera's own sector first, and of two sectors
\* that differ along one axis only, the one nearer to the camera's sector
\* on that axis is requested before the farther one.
C11_ScanNearToFar ==
    [][ScanStep =>
         LET q == ScanSent
             c == sector_at(player_pos)
         IN  /\ q[1].sector = c
             /\ \A i, j \in DOMAIN q :
                   (/\ AxesDiffering(q[i].sector, q[j].sector) = 1
                    /\ \E k \in 1..3 :
                          Abs(q[i].sector[k] - c[k]) < Abs(q[j].sector[k] - c[k]))
                   => i < j]_vars

\* The unit step of a face: Back is z-1, Front z+1, Top y+1, Bottom y-1,
\* Left x-1, Right x+1.
FaceStep(face) ==
    CASE face = "Back" -> <<0, 0, -1>>
      [] face = "Front" -> <<0, 0, 1>>
      [] face = "Top" -> <<0, 1, 0>>
      [] face = "Bottom" -> <<0, -1, 0>>
      [] face = "Left" -> <<-1, 0, 0>>
      [] face = "Right" -> <<1, 0, 0>>

Across(c, face) ==
    << c[1] + FaceStep(face)[1], c[2] + FaceStep(face)[2], c[3] + FaceStep(face)[3] >>

FaceNames == { Faces[i] : i \in DOMAIN Faces }

Quads(v) == { v[i] : i \in DOMAIN v }

\* The block at local coordinate c of a list, by its place in the array.
BlockAt(list, c) == list[c[1] + SECTOR_SIZE * c[2] + SECTOR_SIZE * SECTOR_SIZE * c[3]]

\* C12: the mesh holds quads of non-air blocks only, each at most once (6
\* vertices per quad), and for a non-air block and a face whose neighbour
\* lies in the same sector the quad is in the mesh exactly when that
\* neighbour is air.
C12_InSectorFaceCulling ==
    voxelCall.op = "mesh" =>
        LET list == voxelCall.list
            v == voxelCall.result
        IN  /\ vertex_count(v) = 6 * Cardinality(Quads(v))
            /\ \A q \in Quads(v) :
                  q[1] \in LocalCoords /\ q[2] \in FaceNames /\ BlockAt(list, q[1]) # "Air"
            /\ \A c \in LocalCoords, f \in FaceNames :
                  (BlockAt(list, c) # "Air" /\ Across(c, f) \in LocalCoords)
                  => (<< c, f >> \in Quads(v) <=> BlockAt(list, Across(c, f)) = "Air")

\* C12 witness: a mesh of a list in which a solid block has a solid
\* neighbour (no quad between them) and another solid block has an air
\* neighbour in the same sector (a quad).
C12_Witness ==
    /\ voxelCall.op = "mesh"
    /\ \E c \in LocalCoords, f \in FaceNames :
          /\ Across(c, f) \in LocalCoords
          /\ BlockAt(voxelCall.list, c) # "Air"
          /\ BlockAt(voxelCall.list, Across(c, f)) # "Air"
          /\ << c, f >> \notin Quads(voxelCall.result)
    /\ \E c \in LocalCoords, f \in FaceNames :
          /\ Across(c, f) \in LocalCoords
          /\ BlockAt(voxelCall.list, c) # "Air"
          /\ BlockAt(voxelCall.list, Across(c, f)) = "Air"
          /\ << c, f >> \in Quads(voxelCall.result)

\* The sector a face looks into, as the mesh generator is handed it.
AdjacentOf(adjacent, face) ==
    CASE face = "Back" -> adjacent.back
      [] face = "Front" -> adjacent.front
      [] face = "Top" -> adjacent.top
      [] face = "Bottom" -> adjacent.bottom
      [] face = "Left" -> adjacent.left
      [] face = "Right" -> adjacent.right

\* The boundary block across a sector border: the same in-plane
\* coordinates, the opposite extreme on the crossing axis.
Matching(c, face) ==
    << Across(c, face)[1] % SECTOR_SIZE, Across(c, face)[2] % SECTOR_SIZE,
       Across(c, face)[3] % SECTOR_SIZE >>

OnBoundary(c, face) == Across(c, face) \notin LocalCoords

\* C13: for a solid block on a sector boundary the quad toward the next
\* sector is in the mesh exactly when the matching boundary block of that
\* sector is air, in all six directions; update hands the mesh generator
\* the sector at z-1 as back, z+1 as front, y+1 as top, y-1 as bottom, x-1
\* as left and x+1 as right.
C13_CrossSectorFaceCulling ==
    /\ voxelCall.op = "mesh" =>
          \A c \in LocalCoords, f \in FaceNames :
             (BlockAt(voxelCall.list, c) # "Air" /\ OnBoundary(c, f))
             => (<< c, f >> \in Quads(voxelCall.result)
                   <=> BlockAt(AdjacentOf(voxelCall.arg, f).blocks, Matching(c, f)) = "Air")
    /\ (voxelCall.op = "update" /\ voxelCall.result.present) =>
          \A c \in LocalCoords, f \in FaceNames :
             (BlockAt(voxelCall.list, c) # "Air" /\ OnBoundary(c, f))
             => (<< c, f >> \in Quads(voxelCall.result.quads)
                   <=> BlockAt(voxelCall.arg[FaceStep(f)].blocks, Matching(c, f)) = "Air")

\* C13 witness: update meshed a sector whose top neighbour shows a solid
\* block to one of its solid boundary blocks (no quad) and air to another
\* (a quad).
C13_Witness ==
    /\ voxelCall.op = "update"
    /\ voxelCall.result.present
    /\ \E c, d \in LocalCoords :
          /\ OnBoundary(c, "Top") /\ OnBoundary(d, "Top")
          /\ BlockAt(voxelCall.list, c) # "Air"
          /\ BlockAt(voxelCall.list, d) # "Air"
          /\ BlockAt(voxelCall.arg[<<0, 1, 0>>].blocks, Matching(c, "Top")) # "Air"
          /\ BlockAt(voxelCall.arg[<<0, 1, 0>>].blocks, Matching(d, "Top")) = "Air"
          /\ << c, "Top" >> \notin Quads(voxelCall.result.quads)
          /\ << d, "Top" >> \in Quads(voxelCall.result.quads)

AllAir(list) == \A c \in LocalCoords : BlockAt(list, c) = "Air"

C15_IndexRoundTrip ==
    /\ \A c, d \in LocalCoords :
          /\ index(c) \in 0..(SECTOR_LEN - 1)
          /\ index(c) = index(d) => c = d
          /\ IterCoord(index(c)) = c
    /\ voxelCall.op = "iter" =>
          LET items == voxelCall.result
          IN  /\ Len(items) = SECTOR_LEN
              /\ \A c \in LocalCoords :
                    Cardinality({ n \in DOMAIN items : items[n][1] = c }) = 1
              /\ \A n \in DOMAIN items :
                    /\ items[n][1] \in LocalCoords
                    /\ items[n][2] = get(voxelCall.list, items[n][1])
    /\ voxelCall.op = "set" =>
          LET c == voxelCall.arg[1]
              b == voxelCall.arg[2]
              old == voxelCall.result
          IN  /\ get(voxelCall.list, c) = b
              /\ \A d \in LocalCoords \ {c} :
                    get(voxelCall.list, d) = get(old, d)

\* C15 witness: a set call changed the block of one coordinate of a list
\* that holds other non-air blocks.
C15_Witness ==
    /\ voxelCall.op = "set"
    /\ get(voxelCall.list, voxelCall.arg[1]) # get(voxelCall.result, voxelCall.arg[1])
    /\ \E d \in LocalCoords \ {voxelCall.arg[1]} : get(voxelCall.list, d) # "Air"
    /\ \E d \in LocalCoords \ {voxelCall.arg[1]} : get(voxelCall.list, d) = "Air"

\* C16: SectorSpaceCoords::new panics exactly when a component is
\* >= SECTOR_SIZE and otherwise keeps the components; a neighbour query
\* returns None exactly when the block is on that face of the sector and
\* otherwise the coordinate one step along that axis, without panicking.
C16_CoordsBoundsChecked ==
    /\ voxelCall.op = "new" =>
          LET a == voxelCall.arg
          IN  IF a[1] >= SECTOR_SIZE \/ a[2] >= SECTOR_SIZE \/ a[3] >= SECTOR_SIZE
              THEN voxelCall.result = PANIC
              ELSE voxelCall.result = a
    /\ voxelCall.op = "neighbour" =>
          LET f == voxelCall.arg[1]
              c == voxelCall.arg[2]
          IN  IF OnBoundary(c, f)
              THEN voxelCall.result = << >>
              ELSE voxelCall.result = << Across(c, f) >>

\* C16 witness: new was handed a component equal to SECTOR_SIZE, next to
\* two components within bounds, and panicked.
C16_Witness ==
    /\ voxelCall.op = "new"
    /\ voxelCall.arg[1] = SECTOR_SIZE
    /\ voxelCall.arg[2] < SECTOR_SIZE
    /\ voxelCall.arg[3] < SECTOR_SIZE
    /\ voxelCall.result = PANIC

\* The generated results the threads hold: in a worker about to send, in
\* the result channel, in the map.
GeneratedResults ==
    { << wItem[w][1], wBlocks[w][1] >> : w \in { v \in DOMAIN wPc : wPc[v] = "send" } }
    \cup { << nearby[i].sector, nearby[i].blocks >> :
             i \in { j \in DOMAIN nearby : nearby[j].type = "Generated" } }
    \cup { << k, sectors[k].blocks >> : k \in DOMAIN sectors }

Comp(t, k) == IF k = 1 THEN t.x ELSE IF k = 2 THEN t.y ELSE t.z

Unit(k) == << IF k = 1 THEN 1 ELSE 0, IF k = 2 THEN 1 ELSE 0, IF k = 3 THEN 1 ELSE 0 >>

\* The block a translation is in, and the block d steps from it on axis k.
BlockOf(t) == << Round(t.x), Round(t.y), Round(t.z) >>

Beside(t, k, d) ==
    << BlockOf(t)[1] + d * Unit(k)[1], BlockOf(t)[2] + d * Unit(k)[2],
       BlockOf(t)[3] + d * Unit(k)[3] >>

SectorOfBlock(b) == << b[1] \div SECTOR_SIZE, b[2] \div SECTOR_SIZE, b[3] \div SECTOR_SIZE >>

LocalOfBlock(b) == << b[1] % SECTOR_SIZE, b[2] % SECTOR_SIZE, b[3] % SECTOR_SIZE >>

\* The world block b is non-air in a sector of the map.
ResidentNonAir(b) ==
    /\ SectorOfBlock(b) \in DOMAIN sectors
    /\ BlockAt(sectors[SectorOfBlock(b)].blocks, LocalOfBlock(b)) # "Air"

\* The world block b is solid in a resident sector that has its mesh.
SolidMeshed(b) ==
    /\ ResidentNonAir(b)
    /\ sectors[SectorOfBlock(b)].model.present

\* The coordinate a component is clamped to by the neighbour d steps away
\* on axis k: the neighbour coordinate -/+ (1 + COLLIDE_PADDING).
Margin(t, k, d) == 10 * Beside(t, k, d)[k] - d * 13

\* The translation overlaps the solid neighbour d steps away on axis k.
Overlaps(t, k, d) ==
    /\ SolidMeshed(Beside(t, k, d))
    /\ IF d = -1 THEN Comp(t, k) < Margin(t, k, d) ELSE Comp(t, k) > Margin(t, k, d)

OverlapAxes(t) == { k \in 1..3 : Overlaps(t, k, -1) \/ Overlaps(t, k, 1) }

\* C19: when the translation overlaps a solid neighbour on exactly one
\* axis, collide leaves that component at the margin of a solid neighbour
\* on that axis and the two other components unchanged; when no neighbour
\* is solid the translation is unchanged.
C19_CollideClampsOneAxis ==
    collideCall.called =>
        LET t == collideCall.input
            u == collideCall.output
        IN  /\ \A k \in 1..3 :
                  OverlapAxes(t) = {k} =>
                     /\ \E d \in {-1, 1} :
                           SolidMeshed(Beside(t, k, d)) /\ Comp(u, k) = Margin(t, k, d)
                     /\ \A j \in (1..3) \ {k} : Comp(u, j) = Comp(t, j)
            /\ (\A k \in 1..3, d \in {-1, 1} : ~SolidMeshed(Beside(t, k, d))) => u = t

\* C19 witness: the translation stood above a meshed solid block, past the
\* margin, overlapping on the y axis only, and its y was moved.
C19_Witness ==
    /\ collideCall.called
    /\ OverlapAxes(collideCall.input) = {2}
    /\ Overlaps(collideCall.input, 2, -1)
    /\ collideCall.output.y # collideCall.input.y

\* C20: collide changes a component only against a neighbour block that is
\* solid in a resident sector with a mesh; a block of an absent sector or
\* of a resident sector without its mesh never moves the translation.
C20_CollideOnlyMeshed ==
    collideCall.called =>
        \A k \in 1..3 :
           Comp(collideCall.output, k) # Comp(collideCall.input, k)
           => \E d \in {-1, 1} : SolidMeshed(Beside(collideCall.input, k, d))

\* C20 witness: the block below the translation is solid in a resident
\* sector that has no mesh yet, while another sector of the map has one,
\* and collide left the translation as it was.
C20_Witness ==
    /\ collideCall.called
    /\ ResidentNonAir(Beside(collideCall.input, 2, -1))
    /\ ~SolidMeshed(Beside(collideCall.input, 2, -1))
    /\ collideCall.input.y < Margin(collideCall.input, 2, -1)
    /\ \E k \in DOMAIN sectors : sectors[k].model.present
    /\ collideCall.output = collideCall.input

\* C21: after collide returns, for each of the six directions whose
\* neighbour block is solid in a meshed sector, the component is on the free
\* side of the neighbour coordinate +/- (1 + COLLIDE_PADDING), also when
\* both neighbours on one axis are solid.
C21_CollideKeepsMargin ==
    collideCall.called =>
        \A k \in 1..3, d \in {-1, 1} :
           SolidMeshed(Beside(collideCall.input, k, d)) =>
              IF d = -1
              THEN Comp(collideCall.output, k) >= Margin(collideCall.input, k, d)
              ELSE Comp(collideCall.output, k) <= Margin(collideCall.input, k, d)

\* The message update is about to receive makes the Query arm execute one
\* of its break statements.
BreaksOut ==
    /\ nearby # << >>
    /\ Head(nearby).type = "Query"
    /\ HandleQuery(sectors, Head(nearby).sector, Head(nearby).should_render).brk

\* update leaves its receive loop while the channel still holds messages.
LeavesEarly == mainPc = "drain" /\ mainPc' = "retain" /\ nearby' # << >>

\* C22: update stops receiving before the channel is empty only because
\* the time budget of the loop was exceeded, never because of the message
\* it handled.
C22_DrainStopsOnlyOnBudget == [][LeavesEarly => ~BreaksOut]_vars

\* C23: a worker holds the work-queue mutex only while it takes an entry
\* (between its lock() and the end of pop_front), never while it runs the
\* generator, sends or sleeps.
C23_NoLockWhileGenerating ==
    \A w \in 1..NUM_WORKERS :
       mutex.queue = WorkerThread(w) => wPc[w] \in {"locked", "unlink"}

\* C23 witness: both workers are about to generate the entries they took
\* while the scanner holds the mutex to append another one.
C23_Witness ==
    /\ \A w \in 1..NUM_WORKERS : wPc[w] = "gen" /\ wItem[w] # << >>
    /\ scPc = "push"
    /\ mutex.queue = ScannerThread

\* The serial numbers taken so far are pairwise different.
NoDoubleClaim ==
    \A i, j \in 1..Len(claims.taken) :
       i # j => claims.taken[i] # claims.taken[j]

\* A worker keeps the entry it took until its send, which carries the
\* block list generated for that entry unless the Terrain is gone.
KeepsClaim ==
    \A w \in 1..NUM_WORKERS :
       (wItem[w] # << >> /\ wItem'[w] # wItem[w]) =>
          /\ wPc[w] = "send"
          /\ wItem'[w] = << >>
          /\ \/ dropped
             \/ nearby' = Append(nearby, Generated(wItem[w][1], generate(wItem[w][1])))

\* C24: every entry of the work queue is taken at most once, by one
\* worker, whatever the interleaving, and the worker that took an entry
\* generates it and sends its result.
C24_ClaimedExactlyOnce == [](NoDoubleClaim) /\ [][KeepsClaim]_vars

\* C24 witness: the two workers hold two entries at the same time, after a
\* result was already sent.
C24_Witness ==
    /\ \A w \in 1..NUM_WORKERS : wItem[w] # << >>
    /\ Len(claims.taken) >= 3
    /\ \E i \in 1..Len(nearby) : nearby[i].type = "Generated"

\* C25: the entries are taken in the order they were pushed: the n-th
\* entry taken is the n-th entry pushed.
C25_OldestFirst ==
    \A i \in 1..Len(claims.taken) : claims.taken[i] = i

\* C25 witness: entries were taken by both workers while later entries
\* were waiting in the queue.
C25_Witness ==
    /\ Len(claims.taken) >= 2
    /\ Len(queue) >= 2
    /\ \A w \in 1..NUM_WORKERS : wItem[w] # << >>

\* The mutexes a thread holds.
Held(th) == { m \in {"shared_info", "queue"} : mutex[m] = th }

Threads == {MainThread, ScannerThread} \cup { WorkerThread(w) : w \in 1..NUM_WORKERS }

\* No thread holds both mutexes, and a thread at a channel operation
\* (try_recv or send) holds none.
LockDiscipline ==
    /\ \A th \in Threads : Cardinality(Held(th)) <= 1
    /\ mainPc = "drain" => Held(MainThread) = {}
    /\ scPc \in {"scan", "drain"} => Held(ScannerThread) = {}
    /\ \A w \in 1..NUM_WORKERS : wPc[w] = "send" => Held(WorkerThread(w)) = {}

\* C29: the threads cannot deadlock: no thread holds both mutexes or
\* touches a channel while holding one, every lock() is eventually
\* granted, and every call of update returns.
C29_NoDeadlock ==
    /\ []LockDiscipline
    /\ (mainPc = "lock_info") ~> (mainPc = "store")
    /\ (scPc = "lock_queue") ~> (scPc = "push")
    /\ (scPc = "loop" /\ (scans < FairLockScans \/ dropped)) ~> (scPc = "info")
    /\ \A w \in 1..NUM_WORKERS : (wPc[w] = "pop") ~> (wPc[w] = "locked")
    /\ (mainPc \in {"lock_info", "store", "drain", "retain"}) ~> (mainPc = "draw")

\* C29 witness: update waits for shared_info, which the scanner holds,
\* while a worker holds the work-queue mutex.
C29_Witness ==
    /\ mainPc = "lock_info"
    /\ mutex.shared_info = ScannerThread
    /\ \E w \in 1..NUM_WORKERS : mutex.queue = WorkerThread(w)

\* C26: a sector that has a model keeps that very model for as long as it
\* stays in the map; no step replaces or removes it.
C26_MeshAttachedOnce ==
    [][\A c \in DOMAIN sectors \cap DOMAIN sectors' :
          sectors[c].model.present => sectors'[c].model = sectors[c].model]_vars

\* C26 witness: update has just handled the Query of the third scan for
\* the meshed sector (0,-1,0), the fourth of that scan, and the sector
\* still has its model.
C26_Witness ==
    /\ scans = MeshMaxScans + 1
    /\ moves = 0
    /\ scSector = <<0, 0, 0>>
    /\ lastRecv = "query"
    /\ mainPc = "retain"
    /\ Len(nearby) = ScanCount(MeshScanLen, MeshScanDepth) - (MeshScanLen + 1)
    /\ \A i \in 1..Len(nearby) : nearby[i].sector # <<0, -1, 0>>
    /\ <<0, -1, 0>> \in DOMAIN sectors
    /\ sectors[<<0, -1, 0>>].model.present

\* Every request was served and every message received.
AllReceived ==
    /\ nearby = << >>
    /\ needed = << >>
    /\ queue = << >>
    /\ \A w \in 1..NUM_WORKERS : wItem[w] = << >>

\* C27: with the camera at its first position, whatever the order in
\* which the results arrive, a resident sector holds the blocks generated
\* for its coordinate, and once every result was received the resident
\* coordinates are those the scan asked for.
C27_OrderOfArrivalIrrelevant ==
    /\ moves = 0 =>
          \A c \in DOMAIN sectors : sectors[c].blocks = generate(c)
    /\ (moves = 0 /\ scans >= 1 /\ ~dropped /\ AllReceived) =>
          DOMAIN sectors = ScanSectors(ScanLen, ScanDepth, <<0, 0, 0>>)

\* C27 witness: the result for (0,0,0), requested after (0,-1,0), was
\* received and inserted first; the result for (0,-1,0) is still in the
\* channel.
C27_Witness ==
    /\ moves = 0
    /\ DOMAIN sectors = { <<0, 0, 0>> }
    /\ nearby # << >>
    /\ Head(nearby) = Generated(<<0, -1, 0>>, generate(<<0, -1, 0>>))

\* The six neighbour slots of update: back, front, top, bottom, left, right.
NeighbourSlots == DOMAIN Neighbours(<<0, 0, 0>>)

\* The sectors that have a model after this step and had none before it.
NewlyMeshed ==
    { c \in DOMAIN sectors' :
         /\ sectors'[c].model.present
         /\ c \notin DOMAIN sectors \/ ~sectors[c].model.present }

\* C28: a sector gets a model only in a step of update that handles a Query
\* with should_render set for it while the sector is in the map, has a
\* non-air block and no model, and its six face-adjacent sectors are in
\* the map.
C28_MeshOnlyWhenReady ==
    [][\A c \in NewlyMeshed :
          /\ Receiving(Query(c, TRUE))
          /\ c \in DOMAIN sectors
          /\ \E i \in DOMAIN sectors[c].blocks : sectors[c].blocks[i] # "Air"
          /\ ~sectors[c].model.present
          /\ \A f \in NeighbourSlots : Neighbours(c)[f] \in DOMAIN sectors]_vars

\* C28 witness: update has just handled the Query of the second scan for
\* (0,-1,0), whose six neighbours are resident: it is the one sector with
\* a model.
C28_Witness ==
    /\ scans = MeshMaxScans
    /\ moves = 0
    /\ lastRecv = "query"
    /\ Len(nearby) = ScanCount(MeshScanLen, MeshScanDepth) - (MeshScanLen + 1)
    /\ { c \in DOMAIN sectors : sectors[c].model.present } = { <<0, -1, 0>> }
    /\ \A f \in NeighbourSlots : Neighbours(<<0, -1, 0>>)[f] \in DOMAIN sectors

\* C30: a Generated result for a coordinate that is in the map leaves the
\* map as it is, blocks and model of the entry included; the map, a
\* function of the coordinate, holds one sector per coordinate.
C30_ResidentEntryKept ==
    [][(/\ mainPc = "drain"
        /\ nearby # << >>
        /\ Head(nearby).type = "Generated"
        /\ Head(nearby).sector \in DOMAIN sectors
        /\ nearby' = Tail(nearby))
       => sectors' = sectors]_vars

\* C30 witness: the second result for (0,-1,0), the first of the requests
\* made twice, was received after the sector got its model and thrown
\* away; the sector has its model.
C30_Witness ==
    /\ lastRecv = "discarded"
    /\ moves = 0
    /\ Len(queue) = Len(DuplicateRequests) - 1
    /\ \A w \in 1..MeshWorkers : wItem[w] = << >>
    /\ \A i \in 1..Len(nearby) : nearby[i].type = "Query"
    /\ <<0, -1, 0>> \in DOMAIN sectors
    /\ sectors[<<0, -1, 0>>].model.present

====
